---- MODULE Spec2Model ----
(***************************************************************************)
(* A model of the web page scraper and Markdown converter:                 *)
(*   - the text sanitizers clean_text / clean_code_text,                   *)
(*   - the DOM walk extract_all_text_content with its table and list       *)
(*     extractors and the inline formatter,                                *)
(*   - the Markdown rendering of convert_to_markdown,                      *)
(*   - the orchestrator main (scrape, convert, write the two files).       *)
(*                                                                         *)
(* A string is a sequence of characters; a character is a one-character    *)
(* string, or a name for a code point that has no printable form:          *)
(* "ZWSP" (U+200B), "PUA" (U+E000), "SPEC" (U+FFFD), "NBSP" (U+00A0),      *)
(* "BACKTICK" (U+0060).                                                    *)
(***************************************************************************)
EXTENDS Integers, Sequences, FiniteSets, TLC

VARIABLES
    pc,               \* where main is
    url,              \* main's url, a sequence of tokens
    scraped_data,     \* what scrape_webpage_direct returned
    content_items,    \* the items extract_all_text_content returned
    markdown_content, \* the lines convert_to_markdown joined (None before)
    fs,               \* the files of the run: folder, markdown, json
    text_in,          \* sanitizer run: the input string
    text_variant,     \* sanitizer run: which clean_text is applied
    text_once,        \* sanitizer run: clean_text(text_in)
    text_twice,       \* sanitizer run: clean_text(clean_text(text_in))
    render_first,     \* render run: what the first convert_to_markdown returned
    render_second,    \* render run: what the second call, same argument, returned
    markdown_lines,   \* converter run: self.markdown_lines of the MarkdownConverter
    returned,         \* converter run: what its latest convert call returned
    calls             \* converter run: how many convert calls were made

vars == <<pc, url, scraped_data, content_items, markdown_content, fs,
          text_in, text_variant, text_once, text_twice,
          render_first, render_second, markdown_lines, returned, calls>>

mainVars == <<pc, url, scraped_data, content_items, markdown_content, fs>>
textVars == <<text_in, text_variant, text_once, text_twice>>
renderVars == <<render_first, render_second>>
converterVars == <<markdown_lines, returned, calls>>

None == "None"
\* extract_table_data's None, and the empty dictionary {}
NoTable == <<>>
EmptyDict == <<>>
\* a file: absent, or holding what was written to it
Absent == <<>>
Holding(content) == <<content>>

(***************************************************************************)
(* Bounds of the model.                                                    *)
(***************************************************************************)
\* longest input string of a sanitizer run
MaxLen == 3
\* most nodes of a generic content tree (its root, the body, included)
MaxNodes == 4
\* most nodes of a table subtree (the table included)
MaxTableNodes == 6
\* most nodes of a list subtree (the ul/ol included)
MaxListNodes == 5
\* most children of the paragraph of an inline page
MaxInlineChildren == 2
\* most convert calls made on one MarkdownConverter
MaxCalls == 3
\* most parts of a URL the user types
MaxUrlParts == 2

(***************************************************************************)
(* Characters.                                                             *)
(***************************************************************************)
\* the class U+200B-U+200F, U+FEFF, U+2060, U+00AD
ZeroWidthChars == {"ZWSP"}
\* the class U+0000-U+001F, U+007F-U+009F: tab and newline are C0 controls
ControlChars == {"\t", "\n"}
\* the class U+E000-U+F8FF
PrivateUseChars == {"PUA"}
\* the class U+FFF0-U+FFFF
SpecialsChars == {"SPEC"}
\* what str.strip() removes at both ends: the characters str.isspace() holds for
WhitespaceChars == {" ", "\t", "\n", "NBSP"}

\* str.lower() on the characters of the model
Lower(c) == CASE c = "V" -> "v" [] c = "A" -> "a" [] OTHER -> c

RECURSIVE Concat(_)
\* "".join(seqs)
Concat(seqs) == IF seqs = <<>> THEN <<>> ELSE Head(seqs) \o Concat(Tail(seqs))

\* re.sub('[class]', '', text)
RemoveChars(text, class) == SelectSeq(text, LAMBDA c : c \notin class)

\* text.replace(old, new), old one character, new a string
ReplaceChar(text, old, new) ==
    Concat([i \in 1..Len(text) |-> IF text[i] = old THEN new ELSE <<text[i]>>])

\* re.sub(r' +', ' ', text): a space that follows a space is dropped
CollapseSpaces(text) ==
    LET keep == {i \in 1..Len(text) : ~(text[i] = " " /\ i > 1 /\ text[i-1] = " ")}
    IN  Concat([i \in 1..Len(text) |-> IF i \in keep THEN <<text[i]>> ELSE <<>>])

\* text.strip()
Strip(text) ==
    LET solid == {i \in 1..Len(text) : text[i] \notin WhitespaceChars}
    IN  IF solid = {} THEN <<>>
        ELSE LET lo == CHOOSE i \in solid : \A j \in solid : i <= j
                 hi == CHOOSE i \in solid : \A j \in solid : j <= i
             IN  SubSeq(text, lo, hi)

\* the order of a plausible slip: the ends are trimmed before the invisible
\* characters are removed
clean_text_strip_first(text) ==
    IF text = <<>> THEN <<>>
    ELSE LET t0 == Strip(text)
             t1 == RemoveChars(t0, ZeroWidthChars)
             t2 == RemoveChars(t1, ControlChars)
             t3 == RemoveChars(t2, PrivateUseChars)
             t4 == RemoveChars(t3, SpecialsChars)
             t5 == ReplaceChar(t4, "\t", <<" ">>)
         IN  CollapseSpaces(t5)

\* clean_text of all_in_one_scraper.py and web_scraper/utils.py
clean_text(text) ==
    IF text = <<>> THEN <<>>
    ELSE LET t1 == RemoveChars(text, ZeroWidthChars)
             t2 == RemoveChars(t1, ControlChars)
             t3 == RemoveChars(t2, PrivateUseChars)
             t4 == RemoveChars(t3, SpecialsChars)
             t5 == ReplaceChar(t4, "\t", <<" ">>)
             t6 == CollapseSpaces(t5)
         IN  Strip(t6)

\* clean_text of improved_extractor.py
improved_clean_text(text) ==
    IF text = <<>> THEN <<>>
    ELSE Strip(CollapseSpaces(ReplaceChar(text, "\t", <<" ">>)))

\* clean_code_text
clean_code_text(text) ==
    IF text = <<>> THEN <<>>
    ELSE Strip(ReplaceChar(text, "\t", <<" ", " ", " ", " ">>))

CleanBy(variant, text) ==
    IF variant = "improved" THEN improved_clean_text(text) ELSE clean_text(text)

(***************************************************************************)
(* The parsed document.  A document is the sequence of its nodes in        *)
(* document (pre-) order; a node holds its tag ("#text" for a text node,   *)
(* "[document]" for the BeautifulSoup object itself), its class, its depth *)
(* below the BeautifulSoup object and, for a text node, its string.  The   *)
(* subtree of node i is the run of nodes after i that lie deeper than i.   *)
(***************************************************************************)
Range(lo, hi) == [k \in 1..(hi - lo + 1) |-> lo + k - 1]

IsText(doc, i) == doc[i].tag = "#text"

\* the last node of the subtree of i
SubEnd(doc, i) ==
    LET later == {j \in (i+1)..Len(doc) : doc[j].depth <= doc[i].depth}
    IN  IF later = {} THEN Len(doc)
        ELSE (CHOOSE j \in later : \A k \in later : j <= k) - 1

\* elem.parent (0: none)
ParentOf(doc, i) ==
    LET up == {j \in 1..(i-1) : doc[j].depth = doc[i].depth - 1}
    IN  IF up = {} THEN 0 ELSE CHOOSE j \in up : \A k \in up : k <= j

\* elem.children, in order
ChildrenOf(doc, i) ==
    SelectSeq(Range(i + 1, SubEnd(doc, i)),
              LAMBDA j : doc[j].depth = doc[i].depth + 1)

\* elem.get_text(): the strings of the text nodes of the subtree, joined
get_text(doc, i) == Concat([k \in 1..(SubEnd(doc, i) - i + 1) |-> doc[i + k - 1].text])

\* elem.find_all(tags): the descendants with one of the tags, in order
find_all(doc, i, tags) ==
    SelectSeq(Range(i + 1, SubEnd(doc, i)), LAMBDA j : doc[j].tag \in tags)

\* elem.find_all(tags, recursive=False)
find_all_direct(doc, i, tags) ==
    SelectSeq(ChildrenOf(doc, i), LAMBDA j : doc[j].tag \in tags)

\* elem.find(tag, class_=cls): the first such descendant (0: None);
\* cls = "" asks for no class
find(doc, i, tag, cls) ==
    LET hits == SelectSeq(Range(i + 1, SubEnd(doc, i)),
                          LAMBDA j : doc[j].tag = tag /\ (cls = "" \/ doc[j].cls = cls))
    IN  IF hits = <<>> THEN 0 ELSE hits[1]

(***************************************************************************)
(* The table and list extractors and the inline formatter.                 *)
(***************************************************************************)
\* cell_texts = [clean_text(cell.get_text()) for cell in cells]
CellTexts(doc, row) ==
    LET cells == find_all(doc, row, {"th", "td"})
    IN  [k \in 1..Len(cells) |-> clean_text(get_text(doc, cells[k]))]

\* the rows the loop of extract_table_data does not skip:
\* if cells: ... if any(cell for cell in cell_texts)
RowSurvives(doc, row) ==
    /\ find_all(doc, row, {"th", "td"}) # <<>>
    /\ \E k \in DOMAIN CellTexts(doc, row) : CellTexts(doc, row)[k] # <<>>

\* if i == 0 and row.find('th'), for the k-th row of find_all('tr') (i = k - 1)
IsHeaderRow(doc, all_rows, k) == k = 1 /\ find(doc, all_rows[k], "th", "") # 0

\* a plausible slip: the empty-row filter is left out
extract_table_data_unfiltered(doc, table) ==
    LET all_rows == find_all(doc, table, {"tr"})
        hdr == {k \in 1..Len(all_rows) : IsHeaderRow(doc, all_rows, k)}
        data == SelectSeq(Range(1, Len(all_rows)), LAMBDA k : k \notin hdr)
        rows == [n \in 1..Len(data) |-> CellTexts(doc, all_rows[data[n]])]
    IN  IF rows # <<>>
        THEN [headers |-> IF hdr = {} THEN <<>> ELSE CellTexts(doc, all_rows[1]),
              rows |-> rows]
        ELSE NoTable

\* extract_table_data
extract_table_data(doc, table) ==
    LET all_rows == find_all(doc, table, {"tr"})
        kept == SelectSeq(Range(1, Len(all_rows)),
                          LAMBDA k : RowSurvives(doc, all_rows[k]))
        hdr == SelectSeq(kept, LAMBDA k : IsHeaderRow(doc, all_rows, k))
        data == SelectSeq(kept, LAMBDA k : ~IsHeaderRow(doc, all_rows, k))
        \* headers = cell_texts: the last header row read wins
        headers == IF hdr = <<>> THEN <<>>
                   ELSE CellTexts(doc, all_rows[hdr[Len(hdr)]])
        rows == [n \in 1..Len(data) |-> CellTexts(doc, all_rows[data[n]])]
    IN  IF rows # <<>> THEN [headers |-> headers, rows |-> rows] ELSE NoTable

\* extract_list_items
extract_list_items(doc, list) ==
    LET lis == find_all_direct(doc, list, {"li"})
        texts == [n \in 1..Len(lis) |-> clean_text(get_text(doc, lis[n]))]
        items == SelectSeq(texts, LAMBDA t : t # <<>>)
    IN  IF items # <<>> THEN items ELSE None

RECURSIVE InlinePieceRecursive(_, _)
\* a plausible slip: an element that is no inline format is formatted child
\* by child, so that the formats nested in it are marked too
InlinePieceRecursive(doc, child) ==
    IF IsText(doc, child) THEN clean_text(doc[child].text)
    ELSE LET tag_name == doc[child].tag
             text == clean_text(get_text(doc, child))
             ch == ChildrenOf(doc, child)
         IN  CASE tag_name \in {"strong", "b"} -> <<"*", "*">> \o text \o <<"*", "*">>
               [] tag_name \in {"em", "i"} -> <<"*">> \o text \o <<"*">>
               [] tag_name = "code" -> <<"BACKTICK">> \o text \o <<"BACKTICK">>
               [] OTHER -> Concat([k \in 1..Len(ch) |-> InlinePieceRecursive(doc, ch[k])])

\* what one child adds to result in process_inline_elements
InlinePiece(doc, child) ==
    IF IsText(doc, child) THEN clean_text(doc[child].text)
    ELSE LET tag_name == doc[child].tag
             text == clean_text(get_text(doc, child))
         IN  CASE tag_name \in {"strong", "b"} -> <<"*", "*">> \o text \o <<"*", "*">>
               [] tag_name \in {"em", "i"} -> <<"*">> \o text \o <<"*">>
               [] tag_name = "code" -> <<"BACKTICK">> \o text \o <<"BACKTICK">>
               [] OTHER -> text

\* process_inline_elements
process_inline_elements(doc, element) ==
    LET ch == ChildrenOf(doc, element)
    IN  clean_text(Concat([k \in 1..Len(ch) |-> InlinePiece(doc, ch[k])]))

(***************************************************************************)
(* The walk.  An item is the dictionary the code appends, plus the field   *)
(* node: the node it was made from (kept for the statements about order    *)
(* and provenance; nothing below reads it).                                *)
(***************************************************************************)
\* len(text) > 1, of the text of a strong/b, an em/i and a p
MinInlineLength == 1
\* a plausible slip: a bare text is kept from the length of an inline text on
MinTextLengthAsInline == MinInlineLength
\* len(text) > 2, of the text of a bare text node
MinTextLength == 2

HeadingTags == {"h1", "h2", "h3", "h4", "h5", "h6"}
\* a plausible slip: nav is missing from the exclusion list
SkipTagsWithoutNav == {"script", "style", "header", "footer"}
SkipTags == {"script", "style", "nav", "header", "footer"}

\* int(tag_name[1])
HeadingLevel(tag_name) ==
    CASE tag_name = "h1" -> 1 [] tag_name = "h2" -> 2 [] tag_name = "h3" -> 3
      [] tag_name = "h4" -> 4 [] tag_name = "h5" -> 5 [] tag_name = "h6" -> 6

\* kw in text
Contains(text, kw) ==
    \E k \in 1..(Len(text) - Len(kw) + 1) : SubSeq(text, k, k + Len(kw) - 1) = kw

CodeKeywords ==
    { <<"v", "a", "r">>,
      <<"f", "u", "n", "c", "t", "i", "o", "n">>,
      <<"s", "c", "r", "i", "p", "t">>,
      <<"e", "f", "o", "r", "m", "s", "i", "g", "n">> }

\* 'javascript' if any(kw in text.lower() for kw in [...]) else 'text'
CodeLanguage(text) ==
    LET lowered == [k \in 1..Len(text) |-> Lower(text[k])]
    IN  IF \E kw \in CodeKeywords : Contains(lowered, kw) THEN "javascript" ELSE "text"

\* a plausible slip: the doubled text of <pre><code> is avoided by passing
\* over the pre that holds a code, not the code that is held by a pre
CodeBlockItemsSkipOuter(doc, i) ==
    LET tag_name == doc[i].tag
        text == clean_code_text(get_text(doc, i))
    IN  IF text # <<>> /\ Len(text) > 5
        THEN IF tag_name = "pre" /\ find_all_direct(doc, i, {"code"}) # <<>>
             THEN <<>>
             ELSE << [type |-> "code", content |-> text,
                      language |-> CodeLanguage(text), node |-> i] >>
        ELSE <<>>

\* the branch of process_element for pre and code: what it appends
CodeBlockItems(doc, i) ==
    LET tag_name == doc[i].tag
        text == clean_code_text(get_text(doc, i))
    IN  IF text # <<>> /\ Len(text) > 5
        THEN IF /\ tag_name = "code"
                /\ ParentOf(doc, i) # 0
                /\ doc[ParentOf(doc, i)].tag = "pre"
             THEN <<>>
             ELSE << [type |-> "code", content |-> text,
                      language |-> CodeLanguage(text), node |-> i] >>
        ELSE <<>>

\* the branches of process_element that end in return: what they append
ClassifiedItems(doc, i, level) ==
    LET tag_name == doc[i].tag
    IN  CASE tag_name \in HeadingTags ->
               LET text == clean_text(get_text(doc, i))
               IN  IF text # <<>>
                   THEN << [type |-> "heading", level |-> HeadingLevel(tag_name),
                            content |-> text, tag |-> tag_name, node |-> i] >>
                   ELSE <<>>
          [] tag_name = "table" ->
               LET table_data == extract_table_data(doc, i)
               IN  IF table_data # NoTable
                   THEN << [type |-> "table", content |-> table_data, node |-> i] >>
                   ELSE <<>>
          [] tag_name \in {"ul", "ol"} ->
               LET list_items == extract_list_items(doc, i)
               IN  IF list_items # None
                   THEN << [type |-> "list", content |-> list_items,
                            ordered |-> (tag_name = "ol"), node |-> i] >>
                   ELSE <<>>
          [] tag_name \in {"pre", "code"} -> CodeBlockItems(doc, i)
          [] tag_name \in {"strong", "b"} ->
               LET text == clean_text(get_text(doc, i))
               IN  IF text # <<>> /\ Len(text) > MinInlineLength
                   THEN << [type |-> "bold", content |-> text, node |-> i] >>
                   ELSE <<>>
          [] tag_name \in {"em", "i"} ->
               LET text == clean_text(get_text(doc, i))
               IN  IF text # <<>> /\ Len(text) > MinInlineLength
                   THEN << [type |-> "italic", content |-> text, node |-> i] >>
                   ELSE <<>>
          [] tag_name = "p" ->
               LET markdown_text == process_inline_elements(doc, i)
               IN  IF markdown_text # <<>> /\ Len(markdown_text) > MinInlineLength
                   THEN << [type |-> "paragraph", content |-> markdown_text, node |-> i] >>
                   ELSE <<>>
          [] tag_name \in SkipTags -> <<>>

\* the tags whose branch of process_element ends in return
TerminalTags ==
    HeadingTags \cup {"table", "ul", "ol", "pre", "code", "strong", "b", "em", "i", "p"}
    \cup SkipTags

\* a plausible slip: a table's branch does not return, and the walk goes on
\* into the table
IsTerminalButTable(tag_name) == tag_name \in TerminalTags \ {"table"}

\* whether process_element returns before its loop over elem.children
IsTerminal(tag_name) == tag_name \in TerminalTags

\* a plausible slip: the children are walked last to first
WalkOrderReversed(ch) == [k \in 1..Len(ch) |-> ch[Len(ch) + 1 - k]]

\* for child in elem.children: the order the loop takes the children in
WalkOrder(ch) == ch

RECURSIVE process_element(_, _, _)
\* process_element(elem, level): the items it appends to content_items
process_element(doc, i, level) ==
    IF IsText(doc, i)
    THEN LET text == clean_text(doc[i].text)
         IN  IF text # <<>> /\ Len(text) > MinTextLength
             THEN << [type |-> "text", content |-> text, level |-> level, node |-> i] >>
             ELSE <<>>
    ELSE LET here == IF doc[i].tag \in TerminalTags
                     THEN ClassifiedItems(doc, i, level) ELSE <<>>
             ch == WalkOrder(ChildrenOf(doc, i))
         IN  IF IsTerminal(doc[i].tag) THEN here
             ELSE here \o Concat([k \in 1..Len(ch) |-> process_element(doc, ch[k], level + 1)])

\* extract_all_text_content
extract_all_text_content(doc, element) == process_element(doc, element, 0)

(***************************************************************************)
(* convert_to_markdown.  A line is a string; the fixed Korean phrases of   *)
(* the code are single characters named after their place.                 *)
(***************************************************************************)
\* a plausible slip: a document without a body is given up at once
MainAreaNeedsBody(doc) ==
    IF find(doc, 1, "body", "") = 0 THEN 0
    ELSE IF find(doc, 1, "div", "document") # 0 THEN find(doc, 1, "div", "document")
    ELSE IF find(doc, 1, "main", "") # 0 THEN find(doc, 1, "main", "")
    ELSE IF find(doc, 1, "article", "") # 0 THEN find(doc, 1, "article", "")
    ELSE find(doc, 1, "body", "")

\* a plausible slip: the container that comes first in the document is taken
MainAreaByPosition(doc) ==
    LET hits == SelectSeq(Range(2, Len(doc)),
                          LAMBDA j : \/ doc[j].tag = "div" /\ doc[j].cls = "document"
                                     \/ doc[j].tag \in {"main", "article", "body"})
    IN  IF hits = <<>> THEN 0 ELSE hits[1]

\* soup.find('div', class_='document') or soup.find('main')
\*   or soup.find('article') or soup.find('body')     (0: None)
MainArea(doc) ==
    IF find(doc, 1, "div", "document") # 0 THEN find(doc, 1, "div", "document")
    ELSE IF find(doc, 1, "main", "") # 0 THEN find(doc, 1, "main", "")
    ELSE IF find(doc, 1, "article", "") # 0 THEN find(doc, 1, "article", "")
    ELSE find(doc, 1, "body", "")

\* sep.join(parts)
RECURSIVE Join(_, _)
Join(parts, sep) ==
    IF parts = <<>> THEN <<>>
    ELSE IF Len(parts) = 1 THEN parts[1]
    ELSE parts[1] \o sep \o Join(Tail(parts), sep)

\* str(n), one character per number
Num(n) == <<ToString(n)>>

\* '#' * level
Repeat(piece, n) == Concat([k \in 1..n |-> piece])

HeaderLines(metadata, now) ==
    LET title == IF metadata.page_title # <<>> THEN metadata.page_title
                 ELSE <<"DEFAULT_TITLE">>
    IN  << <<"#", " ">> \o title,
           <<>>,
           <<"BANNER">>,
           <<>>,
           <<"SOURCE:">> \o metadata.url,
           <<"TITLE:">> \o metadata.page_title,
           <<"DATE:", now>>,
           <<>>,
           <<"-", "-", "-">>,
           <<>> >>

\* a plausible slip: the header line and the separator are made without
\* asking whether there are headers
TableLinesAlwaysHeader(table_data) ==
    LET head == << <<"|", " ">> \o Join(table_data.headers, <<" ", "|", " ">>) \o <<" ", "|">>,
                   <<"|">> \o Repeat(<<"-", "-", "-", "|">>, Len(table_data.headers)) >>
        filled == SelectSeq(table_data.rows, LAMBDA row : row # <<>>)
    IN  head
        \o [k \in 1..Len(filled) |->
              <<"|", " ">> \o Join(filled[k], <<" ", "|", " ">>) \o <<" ", "|">>]
        \o << <<>> >>

TableLines(table_data) ==
    LET head == IF table_data.headers # <<>>
                THEN << <<"|", " ">> \o Join(table_data.headers, <<" ", "|", " ">>) \o <<" ", "|">>,
                        <<"|">> \o Repeat(<<"-", "-", "-", "|">>, Len(table_data.headers)) >>
                ELSE <<>>
        filled == SelectSeq(table_data.rows, LAMBDA row : row # <<>>)
    IN  head
        \o [k \in 1..Len(filled) |->
              <<"|", " ">> \o Join(filled[k], <<" ", "|", " ">>) \o <<" ", "|">>]
        \o << <<>> >>

ListLines(items, ordered) ==
    [k \in 1..Len(items) |->
        IF ordered THEN Num(k) \o <<".", " ">> \o items[k]
        ELSE <<"-", " ">> \o items[k]]
    \o << <<>> >>

\* the lines one item adds
ItemLines(item) ==
    CASE item.type = "heading" ->
           << Repeat(<<"#">>, item.level) \o <<" ">> \o item.content, <<>> >>
      [] item.type \in {"paragraph", "text"} -> << item.content, <<>> >>
      [] item.type = "code" ->
           << <<"BACKTICK", "BACKTICK", "BACKTICK", item.language>>, item.content, <<"BACKTICK", "BACKTICK", "BACKTICK">>, <<>> >>
      [] item.type = "table" -> TableLines(item.content)
      [] item.type = "bold" -> << <<"*", "*">> \o item.content \o <<"*", "*">>, <<>> >>
      [] item.type = "italic" -> << <<"*">> \o item.content \o <<"*">>, <<>> >>
      [] item.type = "list" -> ListLines(item.content, item.ordered)
      [] OTHER -> <<>>

\* type_counts.get(t, 0)
TypeCount(items, t) == Cardinality({k \in 1..Len(items) : items[k].type = t})

\* a plausible slip: the text items are left out of the paragraph count
FooterLinesParagraphsOnly(items, now) ==
    << <<"-", "-", "-">>,
       <<>>,
       <<"STATS_HEADING">>,
       <<>>,
       <<"TOTAL:">> \o Num(Len(items)),
       <<"HEADINGS:">> \o Num(TypeCount(items, "heading")),
       <<"PARAGRAPHS:">> \o Num(TypeCount(items, "paragraph")),
       <<"CODE_BLOCKS:">> \o Num(TypeCount(items, "code")),
       <<"TABLES:">> \o Num(TypeCount(items, "table")),
       <<"LISTS:">> \o Num(TypeCount(items, "list")),
       <<>>,
       <<"DONE_NOTE">>,
       <<>>,
       <<"TOOL_NOTE">>,
       <<"TIME:", now>> >>

FooterLines(items, now) ==
    << <<"-", "-", "-">>,
       <<>>,
       <<"STATS_HEADING">>,
       <<>>,
       <<"TOTAL:">> \o Num(Len(items)),
       <<"HEADINGS:">> \o Num(TypeCount(items, "heading")),
       <<"PARAGRAPHS:">> \o Num(TypeCount(items, "paragraph") + TypeCount(items, "text")),
       <<"CODE_BLOCKS:">> \o Num(TypeCount(items, "code")),
       <<"TABLES:">> \o Num(TypeCount(items, "table")),
       <<"LISTS:">> \o Num(TypeCount(items, "list")),
       <<>>,
       <<"DONE_NOTE">>,
       <<>>,
       <<"TOOL_NOTE">>,
       <<"TIME:", now>> >>

\* markdown_lines, for the items extracted and the metadata
MarkdownLines(items, metadata, now) ==
    HeaderLines(metadata, now)
    \o Concat([k \in 1..Len(items) |-> ItemLines(items[k])])
    \o FooterLines(items, now)

\* the items convert_to_markdown extracts (<<>> without main area)
ConvertItems(data) ==
    LET soup == data.raw_content.full_html
        main_area == MainArea(soup)
    IN  IF main_area = 0 THEN <<>> ELSE extract_all_text_content(soup, main_area)

\* a plausible slip: the check for a main area is left out and the lines are
\* made for no items
convert_to_markdown_unchecked(data, now) ==
    Join(MarkdownLines(ConvertItems(data), data.metadata, now), <<"\n">>)

\* convert_to_markdown: the string it returns (<<>>: "")
convert_to_markdown(data, now) ==
    IF MainArea(data.raw_content.full_html) = 0 THEN <<>>
    ELSE Join(MarkdownLines(ConvertItems(data), data.metadata, now), <<"\n">>)

(***************************************************************************)
(* The pages a run may meet.  Each family is every tree its grammar allows *)
(* up to a number of nodes, hung below the BeautifulSoup object.           *)
(***************************************************************************)
El(tag) == [tag |-> tag, cls |-> "", text |-> <<>>]
Tx(text) == [tag |-> "#text", cls |-> "", text |-> text]
At(label, depth) ==
    [tag |-> label.tag, cls |-> label.cls, text |-> label.text, depth |-> depth]

\* whitespace between tags, a text too short to keep, a text long enough
TxtBlank == <<" ">>
TxtTwo == <<"a", "b">>
TxtThree == <<"a", "b", "c">>
ProseTexts == {Tx(TxtBlank), Tx(TxtTwo), Tx(TxtThree)}

\* the labels a child of a node with this tag may have, per family
Allowed(family, tag) ==
    CASE family = "walk" ->
           ( CASE tag = "body" -> {El("div"), El("h2"), El("table"), El("ul"),
                                   El("strong"), El("p"), El("nav")} \cup ProseTexts
               [] tag = "div" -> {El("h2"), El("table"), El("ul"),
                                  El("strong"), El("p"), El("nav")} \cup ProseTexts
               [] tag = "h2" -> {El("strong")} \cup ProseTexts
               [] tag = "table" -> {El("p")}
               [] tag = "ul" -> {El("li")}
               [] tag = "p" -> {El("strong")} \cup ProseTexts
               [] tag = "nav" -> {El("h2"), El("p")} \cup ProseTexts
               [] tag \in {"li", "strong"} -> ProseTexts
               [] OTHER -> {} )
      [] family = "table" ->
           ( CASE tag = "table" -> {El("tr")}
               [] tag = "tr" -> {El("td"), El("th")}
               [] tag = "td" -> {Tx(TxtBlank), Tx(TxtThree), El("p")}
               [] tag = "th" -> {Tx(TxtBlank), Tx(TxtThree)}
               [] tag = "p" -> {Tx(TxtThree)}
               [] OTHER -> {} )
      [] family = "list" ->
           ( CASE tag \in {"ul", "ol"} -> {El("li"), Tx(TxtThree)}
               [] tag = "li" -> {Tx(TxtBlank), Tx(TxtThree), El("ul")}
               [] OTHER -> {} )

\* the trees of the family with one node more than tree
Extensions(family, tree) ==
    UNION { { Append(tree, At(label, tree[i].depth + 1)) :
                label \in Allowed(family, tree[i].tag) } :
            i \in {j \in 1..Len(tree) : SubEnd(tree, j) = Len(tree)} }

RECURSIVE TreesOfSize(_, _, _)
TreesOfSize(family, root, n) ==
    IF n = 1 THEN { << At(El(root), 0) >> }
    ELSE UNION { Extensions(family, tree) : tree \in TreesOfSize(family, root, n - 1) }

TreesUpTo(family, root, n) == UNION { TreesOfSize(family, root, k) : k \in 1..n }

\* the tree hung `by` levels deeper
Deeper(tree, by) ==
    [k \in 1..Len(tree) |-> [tree[k] EXCEPT !.depth = @ + by]]

Chain(tags) == [k \in 1..Len(tags) |-> At(El(tags[k]), k - 1)]

SoupBody == Chain(<<"[document]", "body">>)

WalkDocs ==
    { Chain(<<"[document]">>) \o Deeper(tree, 1) : tree \in TreesUpTo("walk", "body", MaxNodes) }

TableDocs ==
    { SoupBody \o Deeper(tree, 2) : tree \in TreesUpTo("table", "table", MaxTableNodes) }

ListDocs ==
    { SoupBody \o Deeper(tree, 2) :
        tree \in TreesUpTo("list", "ul", MaxListNodes) \cup TreesUpTo("list", "ol", MaxListNodes) }

\* a table followed by a list of one entry at most
MixedDocs ==
    { SoupBody \o Deeper(table, 2) \o Deeper(list, 2) :
        table \in TreesUpTo("table", "table", MaxTableNodes - 1),
        list \in TreesUpTo("list", "ul", 3) }

\* "\tx\n\ty", "var a=b", "abcdef", "abc"
CodeTexts ==
    { <<"\t", "x", "\n", "\t", "y">>,
      <<"V", "a", "r", " ", "a", "=", "b">>,
      <<"a", "b", "c", "d", "e", "f">>,
      <<"a", "b", "c">> }

CodeDocs ==
    UNION { { SoupBody \o << At(El("pre"), 2), At(Tx(text), 3) >>,
              SoupBody \o << At(El("code"), 2), At(Tx(text), 3) >>,
              SoupBody \o << At(El("pre"), 2), At(El("code"), 3), At(Tx(text), 4) >> } :
            text \in CodeTexts }

\* the sequences of at most n members of the set
RECURSIVE StringsUpTo(_, _)
StringsUpTo(chars, n) ==
    IF n = 0 THEN {<<>>}
    ELSE LET shorter == StringsUpTo(chars, n - 1)
         IN  shorter \cup {Append(s, c) : s \in {x \in shorter : Len(x) = n - 1}, c \in chars}

\* what a paragraph may hold: texts, the inline formats, a span, and a span
\* with a format nested in it
InlineKinds ==
    { << At(Tx(TxtTwo), 0) >>, << At(Tx(TxtBlank), 0) >> }
    \cup { << At(El(tag), 0), At(Tx(TxtThree), 1) >> :
             tag \in {"strong", "b", "em", "i", "code", "span"} }
    \cup { << At(El("span"), 0), At(El(tag), 1), At(Tx(TxtThree), 2) >> :
             tag \in {"strong", "em"} }

\* a paragraph with up to MaxInlineChildren children
InlineDocs ==
    { SoupBody \o << At(El("p"), 2) >>
        \o Concat([k \in 1..Len(kids) |-> Deeper(kids[k], 3)]) :
      kids \in StringsUpTo(InlineKinds, MaxInlineChildren) }

\* texts of one and of two characters as the whole of a bold, an italic and
\* a paragraph
LengthDocs ==
    { SoupBody \o << At(El(tag), 2), At(Tx(text), 3) >> :
        tag \in {"strong", "b", "em", "i", "p"}, text \in { <<"a">>, TxtTwo } }

\* a tr of cells of one tag, each holding a text
RowOf(tag, texts) ==
    << At(El("tr"), 3) >>
    \o Concat([k \in 1..Len(texts) |-> << At(El(tag), 4), At(Tx(texts[k]), 5) >>])

\* tables with a header row: headers A, B over the rows 1, 2 and 3, 4; one
\* header over one row; a header row of th and td; and the rows alone
HeaderTableDocs ==
    { SoupBody \o << At(El("table"), 2) >> \o Concat(rows) :
        rows \in { << RowOf("th", << <<"A">>, <<"B">> >>),
                      RowOf("td", << <<"1">>, <<"2">> >>),
                      RowOf("td", << <<"3">>, <<"4">> >>) >>,
                   << RowOf("th", << <<"A">> >>), RowOf("td", << <<"1">> >>) >>,
                   << RowOf("th", << <<"A">> >>) \o << At(El("td"), 4), At(Tx(<<"B">>), 5) >>,
                      RowOf("td", << <<"1">>, <<"2">> >>) >>,
                   << RowOf("td", << <<"1">>, <<"2">> >>),
                      RowOf("td", << <<"3">>, <<"4">> >>) >> } }

\* pages without a body, and pages with a title and the other containers
FramedDocs ==
    { Chain(<<"[document]">>),
      Chain(<<"[document]", "p">>) \o << At(Tx(TxtThree), 2) >>,
      Chain(<<"[document]", "html", "head", "title">>) \o << At(Tx(TxtThree), 4) >>,
      Chain(<<"[document]", "html", "head", "title">>)
        \o << At(Tx(TxtThree), 4), At(El("body"), 2), At(El("h1"), 3), At(Tx(TxtThree), 4) >>,
      Chain(<<"[document]", "html", "head", "title">>)
        \o << At(Tx(TxtThree), 4), At(El("body"), 2), At(El("script"), 3), At(Tx(TxtThree), 4) >>,
      SoupBody \o << At(El("p"), 2), At(Tx(TxtThree), 3),
                     At(El("main"), 2), At(El("em"), 3), At(Tx(TxtThree), 4) >>,
      SoupBody \o << At(El("article"), 2), At(El("p"), 3), At(Tx(TxtTwo), 4),
                     At([tag |-> "div", cls |-> "document", text |-> <<>>], 2),
                     At(Tx(TxtThree), 3) >>,
      \* a fragment: a main element and no body
      Chain(<<"[document]", "main", "p">>) \o << At(Tx(TxtThree), 3) >>,
      \* the class document on an element that is no div
      SoupBody \o << At(El("p"), 2), At(Tx(TxtThree), 3),
                     At([tag |-> "section", cls |-> "document", text |-> <<>>], 2),
                     At(Tx(TxtThree), 3) >> }

Docs ==
    WalkDocs \cup TableDocs \cup ListDocs \cup MixedDocs \cup CodeDocs \cup FramedDocs
    \cup InlineDocs \cup LengthDocs \cup HeaderTableDocs

\* await context.page.title(): the text of the title element, trimmed
PageTitle(doc) ==
    IF find(doc, 1, "title", "") = 0 THEN <<>>
    ELSE Strip(get_text(doc, find(doc, 1, "title", "")))

\* the readings of datetime.now() a run may get
Times == {"t1"}

\* what the user gives as URL: nothing, a bare host, a full URL
Urls == { <<>>, <<"host">>, <<"https://", "host">> }

(***************************************************************************)
(* Sanitizer runs: the input is any string of at most MaxLen characters.   *)
(***************************************************************************)
ProseChars == {"a", "b", " ", "\t", "\n", "ZWSP", "PUA", "SPEC", "NBSP"}

\* MarkdownConverter(): the instance as __init__ leaves it
ConverterIdle ==
    /\ markdown_lines = <<>>
    /\ returned = None
    /\ calls = 0

RenderIdle ==
    /\ render_first = None
    /\ render_second = None

MainIdle ==
    /\ pc = "idle"
    /\ url = <<>>
    /\ scraped_data = EmptyDict
    /\ content_items = <<>>
    /\ markdown_content = None
    /\ fs = [folder |-> FALSE, markdown |-> Absent, json |-> Absent]

TextInit ==
    /\ text_in \in StringsUpTo(ProseChars, MaxLen)
    /\ text_variant \in {"utils", "improved"}
    /\ text_once = None
    /\ text_twice = None
    /\ MainIdle
    /\ RenderIdle
    /\ ConverterIdle

\* text = clean_text(str(elem))
CleanOnce ==
    /\ text_once = None
    /\ text_once' = CleanBy(text_variant, text_in)
    /\ UNCHANGED <<text_in, text_variant, text_twice, mainVars, renderVars, converterVars>>

\* a second application, as process_inline_elements applies clean_text to
\* a concatenation of cleaned texts
CleanTwice ==
    /\ text_once # None
    /\ text_twice = None
    /\ text_twice' = CleanBy(text_variant, text_once)
    /\ UNCHANGED <<text_in, text_variant, text_once, mainVars, renderVars, converterVars>>

TextNext == CleanOnce \/ CleanTwice

SpecText == TextInit /\ [][TextNext]_vars

(***************************************************************************)
(* main.  pc is the statement main is at; a run ends returned (one of the  *)
(* early returns), caught (the except clause, entered from the scrape;     *)
(* caught_<step> when entered from a later step) or completed.             *)
(***************************************************************************)
NoFiles == [folder |-> FALSE, markdown |-> Absent, json |-> Absent]

TextIdle ==
    /\ text_in = <<>>
    /\ text_variant = "utils"
    /\ text_once = None
    /\ text_twice = None

Init ==
    /\ pc = "start"
    /\ url = <<>>
    /\ scraped_data = EmptyDict
    /\ content_items = <<>>
    /\ markdown_content = None
    /\ fs = NoFiles
    /\ TextIdle
    /\ RenderIdle
    /\ ConverterIdle

\* a plausible slip: the scheme is put in front without looking at the URL
NormalizeUrlAlways(given) == <<"https://">> \o given

\* if not url.startswith(('http://', 'https://')): url = 'https://' + url
NormalizeUrl(given) ==
    IF given # <<>> /\ given[1] \in {"http://", "https://"} THEN given
    ELSE <<"https://">> \o given

\* url = sys.argv[1], or url = input(...).strip(), for what the user gives
ReadUrlFrom(inputs) ==
    /\ pc = "start"
    /\ \E typed \in inputs, source \in {"argv", "input"} :
         url' = IF source = "input" THEN Strip(typed) ELSE typed
    /\ pc' = "check_url"
    /\ UNCHANGED <<scraped_data, content_items, markdown_content, fs, textVars, renderVars, converterVars>>

ReadUrl == ReadUrlFrom(Urls)

\* if not url: return; and the URL is given its scheme
CheckUrl ==
    /\ pc = "check_url"
    /\ IF url = <<>>
       THEN /\ pc' = "returned_no_url"
            /\ url' = url
       ELSE /\ pc' = "scrape"
            /\ url' = NormalizeUrl(url)
    /\ UNCHANGED <<scraped_data, content_items, markdown_content, fs, textVars, renderVars, converterVars>>

\* the dictionary the handler stores for the page it loaded
ScrapedData(doc, now) ==
    [metadata |-> [url |-> url, page_title |-> PageTitle(doc),
                   timestamp |-> now, content_length |-> Len(doc)],
     raw_content |-> [full_html |-> doc]]

\* scraped_data = await scrape_webpage_direct(url), the handler having run
Scrape ==
    /\ pc = "scrape"
    /\ \E doc \in Docs : scraped_data' = ScrapedData(doc, "t1")
    /\ pc' = "convert"
    /\ UNCHANGED <<url, content_items, markdown_content, fs, textVars, renderVars, converterVars>>

\* a plausible slip: the output folder is made before the result is looked at
ScrapeEmptyFolderFirst ==
    /\ pc = "scrape"
    /\ pc' = "returned_scrape_failed"
    /\ fs' = [fs EXCEPT !.folder = TRUE]
    /\ UNCHANGED <<url, scraped_data, content_items, markdown_content, textVars, renderVars, converterVars>>

\* crawler.run returned and the handler stored nothing (the request failed):
\* if not scraped_data: return
ScrapeEmpty ==
    /\ pc = "scrape"
    /\ pc' = "returned_scrape_failed"
    /\ UNCHANGED <<url, scraped_data, content_items, markdown_content, fs, textVars, renderVars, converterVars>>

\* crawler.run raised: except Exception
ScrapeRaises ==
    /\ pc = "scrape"
    /\ pc' = "caught"
    /\ UNCHANGED <<url, scraped_data, content_items, markdown_content, fs, textVars, renderVars, converterVars>>

\* markdown_content = convert_to_markdown(scraped_data);
\* if not markdown_content: return
Convert ==
    /\ pc = "convert"
    /\ \E now \in Times :
         /\ markdown_content' = convert_to_markdown(scraped_data, now)
         /\ content_items' = ConvertItems(scraped_data)
    /\ pc' = IF markdown_content' = <<>> THEN "returned_convert_failed" ELSE "paths"
    /\ UNCHANGED <<url, scraped_data, fs, textVars, renderVars, converterVars>>

\* convert_to_markdown raised (a key missing in scraped_data, the recursion
\* limit on a deep tree): except Exception
ConvertRaises ==
    /\ pc = "convert"
    /\ pc' = "caught_convert"
    /\ UNCHANGED <<url, scraped_data, content_items, markdown_content, fs, textVars, renderVars, converterVars>>

\* generate_output_paths raised in mkdir, the folder not made: except Exception
GeneratePathsRaises ==
    /\ pc = "paths"
    /\ pc' = "caught_paths"
    /\ UNCHANGED <<url, scraped_data, content_items, markdown_content, fs, textVars, renderVars, converterVars>>

\* a plausible slip: the JSON snapshot is written first
GeneratePathsJsonFirst ==
    /\ pc = "paths"
    /\ fs' = [fs EXCEPT !.folder = TRUE]
    /\ pc' = "write_json"
    /\ UNCHANGED <<url, scraped_data, content_items, markdown_content, textVars, renderVars, converterVars>>

\* folder_path, markdown_path, json_path = generate_output_paths(url)
GeneratePaths ==
    /\ pc = "paths"
    /\ fs' = [fs EXCEPT !.folder = TRUE]
    /\ pc' = "write_markdown"
    /\ UNCHANGED <<url, scraped_data, content_items, markdown_content, textVars, renderVars, converterVars>>

\* with open(markdown_path, 'w') as f: f.write(markdown_content)
WriteMarkdown ==
    /\ pc = "write_markdown"
    /\ fs' = [fs EXCEPT !.markdown = Holding(markdown_content)]
    /\ pc' = "write_json"
    /\ UNCHANGED <<url, scraped_data, content_items, markdown_content, textVars, renderVars, converterVars>>

\* writing the Markdown file raised: in open (no file), or in f.write (the
\* file is there, empty): except Exception
WriteMarkdownRaises ==
    /\ pc = "write_markdown"
    /\ \E left \in {Absent, Holding(<<>>)} : fs' = [fs EXCEPT !.markdown = left]
    /\ pc' = "caught_write_markdown"
    /\ UNCHANGED <<url, scraped_data, content_items, markdown_content, textVars, renderVars, converterVars>>

\* writing the JSON file raised: in open (no file), or in json.dump (the file
\* is there, empty): except Exception
WriteJsonRaises ==
    /\ pc = "write_json"
    /\ \E left \in {Absent, Holding(<<>>)} : fs' = [fs EXCEPT !.json = left]
    /\ pc' = "caught_write_json"
    /\ UNCHANGED <<url, scraped_data, content_items, markdown_content, textVars, renderVars, converterVars>>

\* with open(json_path, 'w') as f: json.dump(scraped_data, f, ...)
WriteJson ==
    /\ pc = "write_json"
    /\ fs' = [fs EXCEPT !.json = Holding(scraped_data)]
    /\ pc' = "completed"
    /\ UNCHANGED <<url, scraped_data, content_items, markdown_content, textVars, renderVars, converterVars>>

Next ==
    \/ ReadUrl
    \/ CheckUrl
    \/ Scrape
    \/ ScrapeEmpty
    \/ ScrapeRaises
    \/ Convert
    \/ ConvertRaises
    \/ GeneratePaths
    \/ GeneratePathsRaises
    \/ WriteMarkdown
    \/ WriteMarkdownRaises
    \/ WriteJson
    \/ WriteJsonRaises

Spec == Init /\ [][Next]_vars

(***************************************************************************)
(* URL runs: main from its start to the fetch, for whatever the user may   *)
(* give as URL; the fetch fails.  A URL is a sequence of parts: a scheme,  *)
(* a host, a blank.                                                        *)
(***************************************************************************)
UrlParts == {"http://", "https://", "HTTP://", "ftp://", "host", " "}

UrlInputs == StringsUpTo(UrlParts, MaxUrlParts)

ReadUrlTyped == ReadUrlFrom(UrlInputs)

UrlNext == ReadUrlTyped \/ CheckUrl \/ ScrapeEmpty \/ ScrapeRaises

SpecUrl == Init /\ [][UrlNext]_vars

(***************************************************************************)
(* Render runs: convert_to_markdown is called twice with one argument, the *)
(* clock being read anew in each call.                                     *)
(***************************************************************************)
\* the readings of datetime.now() two calls may get
ClockReadings == {"t1", "t2"}

\* the pages of the render runs
RenderDocs == CodeDocs \cup FramedDocs

RenderInit ==
    /\ pc = "idle"
    /\ url = <<"https://", "host">>
    /\ \E doc \in RenderDocs : scraped_data = ScrapedData(doc, "t1")
    /\ content_items = <<>>
    /\ markdown_content = None
    /\ fs = NoFiles
    /\ TextIdle
    /\ RenderIdle
    /\ ConverterIdle

\* markdown_content = convert_to_markdown(scraped_data)
RenderFirst ==
    /\ render_first = None
    /\ \E now \in ClockReadings : render_first' = convert_to_markdown(scraped_data, now)
    /\ UNCHANGED <<render_second, mainVars, textVars, converterVars>>

\* the same call once more
RenderSecond ==
    /\ render_first # None
    /\ render_second = None
    /\ \E now \in ClockReadings : render_second' = convert_to_markdown(scraped_data, now)
    /\ UNCHANGED <<render_first, mainVars, textVars, converterVars>>

RenderNext == RenderFirst \/ RenderSecond

SpecRender == RenderInit /\ [][RenderNext]_vars

(***************************************************************************)
(* Converter runs: one MarkdownConverter, its convert method called up to  *)
(* MaxCalls times, each time for another page.  content_items is the       *)
(* instance's self.content_items.                                          *)
(***************************************************************************)
ConverterInit ==
    /\ pc = "idle"
    /\ url = <<"https://", "host">>
    /\ scraped_data = EmptyDict
    /\ content_items = <<>>
    /\ markdown_content = None
    /\ fs = NoFiles
    /\ TextIdle
    /\ RenderIdle
    /\ ConverterIdle

\* a plausible slip: the lines of the call before are not cleared
create_markdown_appending(lines, items, metadata, now) ==
    lines \o MarkdownLines(items, metadata, now)

\* _create_markdown: self.markdown_lines = [] and the extends, for
\* self.content_items; the lines it leaves in self.markdown_lines
create_markdown(lines, items, metadata, now) == MarkdownLines(items, metadata, now)

\* converter.convert(scraped_data)
ConverterCall ==
    /\ calls < MaxCalls
    /\ calls' = calls + 1
    /\ \E doc \in RenderDocs, now \in Times :
         /\ scraped_data' = ScrapedData(doc, now)
         /\ IF MainArea(doc) = 0
            THEN /\ returned' = <<>>
                 /\ UNCHANGED <<content_items, markdown_lines>>
            ELSE /\ content_items' = extract_all_text_content(doc, MainArea(doc))
                 /\ markdown_lines' =
                        create_markdown(markdown_lines, content_items',
                                        scraped_data'.metadata, now)
                 /\ returned' = Join(markdown_lines', <<"\n">>)
    /\ UNCHANGED <<pc, url, markdown_content, fs, textVars, renderVars>>

ConverterNext == ConverterCall

SpecConverter == ConverterInit /\ [][ConverterNext]_vars

(***************************************************************************)
(* The statements checked.                                                 *)
(***************************************************************************)
\* the page of the run, once scraped
Scraped == scraped_data # EmptyDict
Page == scraped_data.raw_content.full_html
\* convert_to_markdown has returned
Converted ==
    pc \in {"returned_convert_failed", "paths", "write_markdown", "write_json", "completed",
            "caught_paths", "caught_write_markdown", "caught_write_json"}

\* the proper ancestors of node i
Ancestors(doc, i) == {j \in 1..(i - 1) : SubEnd(doc, j) >= i}

\* the nodes of the main area: its root and its subtree
InMainArea(doc, i) == MainArea(doc) # 0 /\ MainArea(doc) <= i /\ i <= SubEnd(doc, MainArea(doc))

\* C1: the items are in document order: each item comes from a node of the
\* main area that lies later in the pre-order than the node of the item
\* before it, so no item is out of order and no node gives two items.
C1_DocumentOrder ==
    Converted =>
        /\ \A k \in 1..Len(content_items) : InMainArea(Page, content_items[k].node)
        /\ \A k \in 1..(Len(content_items) - 1) :
               content_items[k].node < content_items[k + 1].node

\* C1 happens: two items in a row come from different depths of the tree, with
\* a node between them that gave no item
C1_Witness ==
    /\ Converted
    /\ Len(content_items) >= 2
    /\ \E k \in 1..(Len(content_items) - 1) :
         /\ Page[content_items[k].node].depth # Page[content_items[k + 1].node].depth
         /\ content_items[k].node + 1 < content_items[k + 1].node

\* the block types of the classification
BlockTags == HeadingTags \cup {"table", "ul", "ol", "pre", "code", "strong", "b", "em", "i", "p"}

\* C2: classification is terminal: no item comes from a node that has, inside
\* the main area, an ancestor of a block type; so a table with a p inside
\* gives at most the one Table item.
C2_TerminalClassification ==
    Converted =>
        \A k \in 1..Len(content_items) :
            \A a \in Ancestors(Page, content_items[k].node) :
                InMainArea(Page, a) => Page[a].tag \notin BlockTags

\* C2 happens: a table that gave its Table item holds a p with text, and the
\* Table item is all there is
C2_Witness ==
    /\ Converted
    /\ Len(content_items) = 1
    /\ content_items[1].type = "table"
    /\ \E j \in 1..Len(Page) :
         /\ Page[j].tag = "p"
         /\ content_items[1].node \in Ancestors(Page, j)
         /\ clean_text(get_text(Page, j)) # <<>>

\* C3: for a page with a main area and no item extracted the run writes
\* neither the Markdown file nor the JSON file.
C3_EmptyExtractionWritesNothing ==
    (Converted /\ MainArea(Page) # 0 /\ content_items = <<>>) =>
        /\ fs.markdown = Absent
        /\ fs.json = Absent

\* the rows of the table that pass the empty-row filter, in order
SurvivingRows(doc, table) ==
    SelectSeq(find_all(doc, table, {"tr"}), LAMBDA row : RowSurvives(doc, row))

\* C4: in every Table item the first surviving row of the table is the header
\* row exactly if it holds a th, also after skipped rows; every other
\* surviving row is a data row.
C4_FirstSurvivingRowIsHeader ==
    Converted =>
        \A k \in 1..Len(content_items) :
            content_items[k].type = "table" =>
                LET kept == SurvivingRows(Page, content_items[k].node)
                    first_is_header == find(Page, kept[1], "th", "") # 0
                    data == IF first_is_header THEN Tail(kept) ELSE kept
                IN  /\ content_items[k].content.headers =
                         IF first_is_header THEN CellTexts(Page, kept[1]) ELSE <<>>
                    /\ content_items[k].content.rows =
                         [n \in 1..Len(data) |-> CellTexts(Page, data[n])]

\* each line of the text is one tab and then characters that are no whitespace
TabIndentedLines(text) ==
    /\ text # <<>>
    /\ text[1] = "\t"
    /\ text[Len(text)] \notin WhitespaceChars
    /\ \A k \in 1..Len(text) :
         /\ text[k] = "\n" => (k < Len(text) /\ text[k + 1] = "\t")
         /\ text[k] = "\t" => (k = 1 \/ text[k - 1] = "\n")
         /\ text[k] # " "

\* C5: the CodeBlock of a pre whose lines are indented by one tab each holds
\* the text with every tab as four spaces, the first line's too, and is
\* rendered between a fence line naming the language and a closing fence.
C5_CodeFenceFidelity ==
    Converted =>
        \A k \in 1..Len(content_items) :
            LET item == content_items[k]
                raw == get_text(Page, item.node)
            IN  (item.type = "code" /\ Page[item.node].tag = "pre" /\ TabIndentedLines(raw)) =>
                    /\ item.content = ReplaceChar(raw, "\t", <<" ", " ", " ", " ">>)
                    /\ ItemLines(item) =
                         << <<"BACKTICK", "BACKTICK", "BACKTICK", item.language>>,
                            item.content,
                            <<"BACKTICK", "BACKTICK", "BACKTICK">>,
                            <<>> >>

\* C6: for a page without a content container the converter returns the empty
\* string and extracts nothing, and the run ends with no folder and no file.
C6_NoMainContent ==
    /\ (Converted /\ MainArea(Page) = 0) =>
           /\ markdown_content = <<>>
           /\ content_items = <<>>
           /\ pc = "returned_convert_failed"
    /\ pc = "returned_convert_failed" => fs = NoFiles

\* C6 happens: the page had text to extract, and no container
C6_Witness ==
    /\ pc = "returned_convert_failed"
    /\ MainArea(Page) = 0
    /\ \E j \in 1..Len(Page) : IsText(Page, j) /\ Len(clean_text(Page[j].text)) > 2

\* C7: a run whose fetch gave no result (the crawler raised, or the handler
\* stored nothing) never converts and never makes the folder or a file.
C7_RenderFailure ==
    /\ pc \in {"caught", "returned_scrape_failed"} => ~Scraped
    /\ (pc \notin {"start", "check_url", "scrape"} /\ ~Scraped) =>
           /\ pc \in {"caught", "returned_scrape_failed", "returned_no_url"}
           /\ markdown_content = None
           /\ content_items = <<>>
           /\ fs = NoFiles

\* C7 happens: the crawler raised
C7_Witness == pc = "caught" /\ ~Scraped /\ url # <<>>

\* C8: every Table item has a data row and a non-empty cell in every row;
\* every List item has an entry and no empty entry.
C8_NoEmptyTableOrList ==
    \A k \in 1..Len(content_items) :
        LET item == content_items[k]
        IN  /\ item.type = "table" =>
                 /\ item.content.rows # <<>>
                 /\ \A r \in 1..Len(item.content.rows) :
                        \E c \in 1..Len(item.content.rows[r]) :
                            item.content.rows[r][c] # <<>>
            /\ item.type = "list" =>
                 /\ item.content # <<>>
                 /\ \A e \in 1..Len(item.content) : item.content[e] # <<>>

\* C8 happens: a Table item and a List item were emitted for a page that also
\* holds a row or a list entry that was filtered out
C8_Witness ==
    /\ Converted
    /\ \E k \in 1..Len(content_items) : content_items[k].type = "table"
    /\ \E k \in 1..Len(content_items) : content_items[k].type = "list"
    /\ \E j \in 1..Len(Page) :
         \/ Page[j].tag = "li" /\ clean_text(get_text(Page, j)) = <<>>
         \/ Page[j].tag = "tr" /\ ~RowSurvives(Page, j)

\* the characters of the text are letters
LettersOnly(text) == \A k \in 1..Len(text) : text[k] \in {"a", "b"}

\* C9: two runs of letters separated by one tab come out separated by one
\* space.
C9_TabBecomesSpace ==
    (text_once # None /\ text_variant = "utils") =>
        \A k \in 2..(Len(text_in) - 1) :
            ( /\ text_in[k] = "\t"
              /\ LettersOnly(SubSeq(text_in, 1, k - 1))
              /\ LettersOnly(SubSeq(text_in, k + 1, Len(text_in))) ) =>
                text_once = SubSeq(text_in, 1, k - 1) \o <<" ">>
                            \o SubSeq(text_in, k + 1, Len(text_in))

\* C10: clean_text applied to its own result changes nothing.
C10_Idempotent == text_twice # None => text_twice = text_once

\* C10 happens: the first application removed an invisible character next to a
\* space and kept a letter
C10_Witness ==
    /\ text_twice # None
    /\ text_variant = "utils"
    /\ text_once # text_in
    /\ text_once # <<>>
    /\ \E k \in 1..(Len(text_in) - 1) :
         text_in[k] \in ZeroWidthChars \cup PrivateUseChars \cup SpecialsChars
         /\ text_in[k + 1] = " "

\* how many of the items have one of the types
CountOf(items, types) == Len(SelectSeq(items, LAMBDA item : item.type \in types))

\* the statistics lines of a footer that reports these items
ExpectedStatistics(items) ==
    << "TOTAL:", ToString(Len(items)), "\n",
       "HEADINGS:", ToString(CountOf(items, {"heading"})), "\n",
       "PARAGRAPHS:", ToString(CountOf(items, {"paragraph", "text"})), "\n",
       "CODE_BLOCKS:", ToString(CountOf(items, {"code"})), "\n",
       "TABLES:", ToString(CountOf(items, {"table"})), "\n",
       "LISTS:", ToString(CountOf(items, {"list"})), "\n" >>

\* C11: the footer of the Markdown text reports the number of items, the
\* number of Paragraph plus PlainText items under the one paragraph label,
\* and for heading, code block, table and list the number of items of the
\* type.
C11_StatisticsCorrect ==
    (Converted /\ markdown_content # <<>>) =>
        Contains(markdown_content, ExpectedStatistics(content_items))

\* C11 happens: a Paragraph item and a PlainText item were rendered together
C11_Witness ==
    /\ Converted
    /\ markdown_content # <<>>
    /\ \E k \in 1..Len(content_items) : content_items[k].type = "paragraph"
    /\ \E k \in 1..Len(content_items) : content_items[k].type = "text"

\* C12: two calls of the converter with the same items and the same metadata
\* return the same Markdown text, whenever each is made.
C12_RenderIsPure ==
    (render_first # None /\ render_second # None) => render_first = render_second

\* the first node of the document the condition holds of (0: there is none)
FirstNode(doc, Holds(_)) ==
    LET hits == {j \in 2..Len(doc) : Holds(j)}
    IN  IF hits = {} THEN 0 ELSE CHOOSE j \in hits : \A k \in hits : j <= k

HasTag(doc, tags) == \E j \in 2..Len(doc) : doc[j].tag \in tags

HasDocumentDiv(doc) == \E j \in 2..Len(doc) : doc[j].tag = "div" /\ doc[j].cls = "document"

\* C13 as stated: the converter finds no main container exactly for the
\* documents without a body, whatever else they hold.
C13_NoneIffNoBody ==
    Converted => (markdown_content = <<>> <=> ~HasTag(Page, {"body"}))

\* C13, amended: the converter finds no main container exactly for the
\* documents with no div of class document, no main, no article and no
\* body; so only for documents without a body, and a document without a body
\* that holds one of the other three does get a container.
C13_NoneIffNoContainer ==
    Converted =>
        /\ markdown_content = <<>> <=>
               ~(HasDocumentDiv(Page) \/ HasTag(Page, {"main", "article", "body"}))
        /\ markdown_content = <<>> => ~HasTag(Page, {"body"})

\* C13 happens: a document without a body was converted from its main element
C13_Witness ==
    /\ Converted
    /\ ~HasTag(Page, {"body"})
    /\ HasTag(Page, {"main"})
    /\ markdown_content # <<>>
    /\ content_items # <<>>

\* the container the priority order names, the class document counting on
\* the elements with one of the tags
ContainerByPriority(doc, class_tags) ==
    LET marked == FirstNode(doc, LAMBDA j : doc[j].cls = "document" /\ doc[j].tag \in class_tags)
        main == FirstNode(doc, LAMBDA j : doc[j].tag = "main")
        article == FirstNode(doc, LAMBDA j : doc[j].tag = "article")
        body == FirstNode(doc, LAMBDA j : doc[j].tag = "body")
    IN  IF marked # 0 THEN marked
        ELSE IF main # 0 THEN main
        ELSE IF article # 0 THEN article
        ELSE body

\* the tags of the elements of the document
TagsOf(doc) == {doc[j].tag : j \in 2..Len(doc)} \ {"#text"}

\* C14 as stated: the items are those of the first element of class document,
\* whatever its tag, if there is one; else of the first main; else of the
\* first article; else of the body.
C14_AnyElementOfClassDocument ==
    (Converted /\ markdown_content # <<>>) =>
        content_items =
            extract_all_text_content(Page, ContainerByPriority(Page, TagsOf(Page)))

\* C14, amended: the items are those of the first div of class document if
\* there is one (the class on an element of another tag does not count); else
\* of the first main; else of the first article; else of the body; wherever
\* in the document these stand.
C14_PriorityNotPosition ==
    (Converted /\ markdown_content # <<>>) =>
        /\ content_items =
               extract_all_text_content(Page, ContainerByPriority(Page, {"div"}))
        /\ \A k \in 1..Len(content_items) :
               /\ ContainerByPriority(Page, {"div"}) <= content_items[k].node
               /\ content_items[k].node <= SubEnd(Page, ContainerByPriority(Page, {"div"}))

\* C14 happens: the div of class document comes after an article that holds
\* text, and the items are the div's
C14_Witness ==
    /\ Converted
    /\ content_items # <<>>
    /\ \E a, d \in 2..Len(Page) :
         /\ a < d
         /\ Page[a].tag = "article"
         /\ Page[d].tag = "div" /\ Page[d].cls = "document"
         /\ SubEnd(Page, a) > a
         /\ \A k \in 1..Len(content_items) : content_items[k].node > d

\* the nodes the walk calls process_element for: those of the main area with
\* no ancestor in it whose branch returns
Visited(doc, i) ==
    LET main_area == MainArea(doc)
    IN  /\ main_area # 0
        /\ main_area <= i
        /\ i <= SubEnd(doc, main_area)
        /\ \A a \in main_area..(i - 1) :
               doc[a].tag \in TerminalTags => SubEnd(doc, a) < i

\* the CodeBlock items made from the nodes i..j
CodeBlocksFrom(items, i, j) ==
    SelectSeq(items, LAMBDA item : item.type = "code" /\ i <= item.node /\ item.node <= j)

\* C15: a pre or code element the walk comes to, or a code directly inside
\* such a pre, gives a CodeBlock exactly if its sanitized code text is longer
\* than 5 characters and it is not a code directly inside a pre; every
\* CodeBlock is made so; and a pre around a code
\* with such a text gives one CodeBlock holding the text, not two and not
\* none.
C15_CodeBlockExactlyOnce ==
    (Converted /\ markdown_content # <<>>) =>
        /\ \A j \in 2..Len(Page) :
               ( /\ Page[j].tag \in {"pre", "code"}
                 /\ \/ Visited(Page, j)
                    \/ Page[ParentOf(Page, j)].tag = "pre" /\ Visited(Page, ParentOf(Page, j)) ) =>
                   ( (\E k \in 1..Len(content_items) :
                          content_items[k].node = j /\ content_items[k].type = "code")
                     <=> ( /\ Len(clean_code_text(get_text(Page, j))) > 5
                           /\ ~(Page[j].tag = "code" /\ Page[ParentOf(Page, j)].tag = "pre") ) )
        /\ \A k \in 1..Len(content_items) :
               content_items[k].type = "code" =>
                   /\ Page[content_items[k].node].tag \in {"pre", "code"}
                   /\ content_items[k].content = clean_code_text(get_text(Page, content_items[k].node))
        /\ \A j \in 2..Len(Page) :
               ( /\ Page[j].tag = "pre" /\ Visited(Page, j)
                 /\ j < Len(Page) /\ Page[j + 1].tag = "code" /\ Page[j + 1].depth = Page[j].depth + 1
                 /\ Len(clean_code_text(get_text(Page, j))) > 5 ) =>
                   Len(CodeBlocksFrom(content_items, j, SubEnd(Page, j))) = 1

\* C15 happens: a pre around a code with a text of more than 5 characters
\* was converted, and one CodeBlock came of it
C15_Witness ==
    /\ Converted
    /\ Len(content_items) = 1
    /\ content_items[1].type = "code"
    /\ Page[content_items[1].node].tag = "pre"
    /\ Page[content_items[1].node + 1].tag = "code"
    /\ Len(content_items[1].content) > 5

\* the tags of the exclusion list
ExcludedTags == {"script", "style", "nav", "header", "footer"}

\* C16: no item comes from a script, style, nav, header or footer element of
\* the main area, nor from a node below one; an h2 inside a nav gives no
\* Heading.
C16_SkippedSubtrees ==
    Converted =>
        \A k \in 1..Len(content_items) :
            /\ Page[content_items[k].node].tag \notin ExcludedTags
            /\ \A a \in Ancestors(Page, content_items[k].node) :
                   InMainArea(Page, a) => Page[a].tag \notin ExcludedTags

\* C16 happens: the walk came to an excluded element that holds a text long
\* enough to be kept, and the page gave an item elsewhere
C16_Witness ==
    /\ Converted
    /\ content_items # <<>>
    /\ \E j \in 2..Len(Page) :
         /\ Page[j].tag \in ExcludedTags
         /\ Visited(Page, j)
         /\ \E t \in (j + 1)..SubEnd(Page, j) :
                IsText(Page, t) /\ Len(clean_text(Page[t].text)) > 2

\* the text of a list entry without the text of the lists nested in it
OwnText(doc, li) ==
    LET mine == SelectSeq(Range(li, SubEnd(doc, li)),
                          LAMBDA t : ~\E a \in Ancestors(doc, t) :
                                         a > li /\ doc[a].tag \in {"ul", "ol"})
    IN  Concat([k \in 1..Len(mine) |-> doc[mine[k]].text])

\* the direct li children of the list that have a text of their own, in order
DirectEntries(doc, list) ==
    SelectSeq(ChildrenOf(doc, list),
              LAMBDA j : doc[j].tag = "li" /\ clean_text(OwnText(doc, j)) # <<>>)

\* C17: a List item holds one entry per direct li child of the list that has
\* text, in document order, each entry being the sanitized text of that li
\* without the text of the lists nested in it; the nested li give no entry.
C17_DirectEntriesOnly ==
    Converted =>
        \A k \in 1..Len(content_items) :
            content_items[k].type = "list" =>
                LET entries == DirectEntries(Page, content_items[k].node)
                IN  content_items[k].content =
                        [n \in 1..Len(entries) |-> clean_text(OwnText(Page, entries[n]))]

\* what the statement gives as the contribution of a child of the paragraph
Contribution(doc, child) ==
    LET flat == clean_text(get_text(doc, child))
    IN  IF doc[child].tag = "#text" THEN clean_text(doc[child].text)
        ELSE IF doc[child].tag \in {"strong", "b"} THEN <<"*", "*">> \o flat \o <<"*", "*">>
        ELSE IF doc[child].tag \in {"em", "i"} THEN <<"*">> \o flat \o <<"*">>
        ELSE IF doc[child].tag = "code" THEN <<"BACKTICK">> \o flat \o <<"BACKTICK">>
        ELSE flat

\* C18: the content of a Paragraph item is the sanitized concatenation, in
\* order, of the contributions of the children of its p; and where no child
\* of the p is itself an inline format, the content has no marker, whatever
\* is nested further down.
C18_FormatInline ==
    Converted =>
        \A k \in 1..Len(content_items) :
            content_items[k].type = "paragraph" =>
                LET para == content_items[k].node
                    ch == ChildrenOf(Page, para)
                IN  /\ content_items[k].content =
                           clean_text(Concat([n \in 1..Len(ch) |-> Contribution(Page, ch[n])]))
                    /\ (\A n \in 1..Len(ch) :
                            Page[ch[n]].tag \notin {"strong", "b", "em", "i", "code"})
                       => \A c \in 1..Len(content_items[k].content) :
                              content_items[k].content[c] \notin {"*", "BACKTICK"}

\* C18 happens: a paragraph with an inline format and with a span that holds
\* a nested format gave a Paragraph item
C18_Witness ==
    /\ Converted
    /\ \E k \in 1..Len(content_items) :
         /\ content_items[k].type = "paragraph"
         /\ LET ch == ChildrenOf(Page, content_items[k].node)
            IN  /\ \E n \in 1..Len(ch) : Page[ch[n]].tag \in {"em", "i", "code"}
                /\ \E n \in 1..Len(ch) :
                       /\ Page[ch[n]].tag = "span"
                       /\ Page[ch[n] + 1].tag \in {"strong", "em"}

\* whether the node gave an item of the type
Gave(j, type) ==
    \E k \in 1..Len(content_items) :
        content_items[k].node = j /\ content_items[k].type = type

\* C19: of the nodes the walk comes to, a text node gives a PlainText item
\* exactly if its sanitized text has more than 2 characters, and a strong/b,
\* an em/i and a p give their Bold, Italic and Paragraph item exactly if
\* their text has more than 1 character; so a PlainText content has 3
\* characters or more and a Bold, Italic or Paragraph content 2 or more.
C19_MinimumLength ==
    Converted =>
        /\ \A j \in 2..Len(Page) :
               Visited(Page, j) =>
                   LET flat == clean_text(get_text(Page, j))
                       ch == ChildrenOf(Page, j)
                       inline == clean_text(Concat([n \in 1..Len(ch) |->
                                                       Contribution(Page, ch[n])]))
                   IN  /\ IsText(Page, j) => (Gave(j, "text") <=> Len(flat) > 2)
                       /\ Page[j].tag \in {"strong", "b"} => (Gave(j, "bold") <=> Len(flat) > 1)
                       /\ Page[j].tag \in {"em", "i"} => (Gave(j, "italic") <=> Len(flat) > 1)
                       /\ Page[j].tag = "p" => (Gave(j, "paragraph") <=> Len(inline) > 1)
        /\ \A k \in 1..Len(content_items) :
               /\ content_items[k].type = "text" => Len(content_items[k].content) >= 3
               /\ content_items[k].type \in {"bold", "italic", "paragraph"} =>
                      Len(content_items[k].content) >= 2

\* C19 happens: a bare text of two characters was dropped next to a bold of
\* two characters that was kept
C19_Witness ==
    /\ Converted
    /\ \E j \in 2..Len(Page) :
         IsText(Page, j) /\ Visited(Page, j) /\ Len(clean_text(Page[j].text)) = 2
    /\ \E k \in 1..Len(content_items) :
         content_items[k].type = "bold" /\ Len(content_items[k].content) = 2

\* a pipe-delimited line of the cells: "|", then each cell between a space
\* and " |"
PipeLine(cells) ==
    <<"|">> \o Concat([k \in 1..Len(cells) |-> <<" ">> \o cells[k] \o <<" ", "|">>])

\* the separator line for n headers
SeparatorLine(n) == <<"|">> \o Concat([k \in 1..n |-> <<"-", "-", "-", "|">>])

\* the text of a table: after an empty line, the header line and the
\* separator if there are headers, a line per data row, an empty line
TableText(table_data) ==
    <<"\n", "\n">>
    \o ( IF table_data.headers # <<>>
         THEN PipeLine(table_data.headers) \o <<"\n">>
              \o SeparatorLine(Len(table_data.headers)) \o <<"\n">>
         ELSE <<>> )
    \o Concat([k \in 1..Len(table_data.rows) |-> PipeLine(table_data.rows[k]) \o <<"\n">>])
    \o <<"\n">>

\* C20: a Table item with headers is rendered as the pipe-delimited header
\* line, the separator line with one ---| per header and a pipe-delimited
\* line per data row in order; one without headers as the lines of the data
\* rows alone, with no separator anywhere.
C20_TableRendering ==
    (Converted /\ markdown_content # <<>>) =>
        \A k \in 1..Len(content_items) :
            content_items[k].type = "table" =>
                /\ Contains(markdown_content, TableText(content_items[k].content))
                /\ (\A n \in 1..Len(content_items) :
                        content_items[n].type = "table" => content_items[n].content.headers = <<>>)
                   => ~Contains(markdown_content, <<"-", "-", "-", "|">>)

\* C20 happens: headers A, B over the rows 1, 2 and 3, 4 were rendered
C20_Witness ==
    /\ Converted
    /\ markdown_content # <<>>
    /\ \E k \in 1..Len(content_items) :
         /\ content_items[k].type = "table"
         /\ content_items[k].content =
                [headers |-> << <<"A">>, <<"B">> >>,
                 rows |-> << << <<"1">>, <<"2">> >>, << <<"3">>, <<"4">> >> >>]
    /\ Contains(markdown_content,
                <<"|", " ", "A", " ", "|", " ", "B", " ", "|", "\n",
                  "|", "-", "-", "-", "|", "-", "-", "-", "|", "\n",
                  "|", " ", "1", " ", "|", " ", "2", " ", "|", "\n",
                  "|", " ", "3", " ", "|", " ", "4", " ", "|", "\n">>)

\* where main is once it has ended: an early return, the except clause, the
\* end of the try block
EndOfRun ==
    {"returned_no_url", "returned_scrape_failed", "returned_convert_failed", "completed",
     "caught", "caught_convert", "caught_paths", "caught_write_markdown", "caught_write_json"}

\* C21: a run in which a step raised has ended in the except clause with what
\* was written before the step left in place: nothing for a raise in the
\* scrape or the conversion, the whole Markdown file for a raise while the
\* JSON file is written; and in no state is there a JSON file without the
\* Markdown file.
C21_CaughtAndFilesKept ==
    /\ pc \in {"start", "check_url", "scrape", "convert", "paths", "write_markdown",
             "write_json"} \cup EndOfRun
    /\ pc \in {"caught", "caught_convert"} => fs = NoFiles
    /\ pc = "caught_paths" => fs.markdown = Absent /\ fs.json = Absent
    /\ pc = "caught_write_markdown" => fs.folder /\ fs.json = Absent
    /\ pc = "caught_write_json" => fs.folder /\ fs.markdown = Holding(markdown_content)
    /\ fs.json # Absent => fs.markdown = Holding(markdown_content)

\* C21 happens: json.dump raised with the JSON file opened, and the Markdown
\* file of the run is there
C21_Witness ==
    /\ pc = "caught_write_json"
    /\ fs.json = Holding(<<>>)
    /\ fs.markdown = Holding(markdown_content)
    /\ markdown_content # <<>>

\* C22: what a convert call returns is what a converter just made returns
\* for the same page at the same clock reading, whatever calls went before:
\* the empty string for a page without a container, and else the text of the
\* header, of the page's own items and of the footer, nothing of an earlier
\* page in it.
C22_NoStateAcrossCalls ==
    calls > 0 =>
        LET page == scraped_data.raw_content.full_html
        IN  /\ returned = convert_to_markdown(scraped_data, scraped_data.metadata.timestamp)
            /\ MainArea(page) = 0 => returned = <<>>

\* C22 happens: a third call, for a page without a container, after a call
\* that left items and lines in the converter
C22_Witness ==
    /\ calls = 3
    /\ MainArea(scraped_data.raw_content.full_html) = 0
    /\ content_items # <<>>
    /\ markdown_lines # <<>>
    /\ returned = <<>>

\* url.startswith(('http://', 'https://'))
HasScheme(u) == u # <<>> /\ (u[1] = "http://" \/ u[1] = "https://")

\* C23: the step that checks the URL ends the run for the empty URL, leaves
\* a URL that starts with http:// or https:// as it is and puts https://
\* before any other; so the URL the fetch gets has a scheme and is changed
\* by no second normalization, and a run without URL fetches nothing and
\* writes nothing.
C23_UrlNormalization ==
    /\ [][pc = "check_url" =>
            IF url = <<>> THEN pc' = "returned_no_url" /\ url' = url
            ELSE /\ pc' = "scrape"
                 /\ HasScheme(url) => url' = url
                 /\ ~HasScheme(url) => url' = <<"https://">> \o url]_vars
    /\ [](pc \in {"scrape", "caught", "returned_scrape_failed"} =>
            HasScheme(url) /\ NormalizeUrl(url) = url)
    /\ [](pc = "returned_no_url" => url = <<>> /\ scraped_data = EmptyDict /\ fs = NoFiles)

\* C23 happens: the fetch was called with a URL that has its scheme, and
\* failed
C23_Witness ==
    /\ pc = "returned_scrape_failed"
    /\ url = <<"http://", "host">>

\* whether the item holds the text: in its content, in one of its list
\* entries, or in one of its table cells
HoldsText(item, text) ==
    IF item.type = "list"
    THEN \E n \in 1..Len(item.content) : Contains(item.content[n], text)
    ELSE IF item.type = "table"
    THEN \/ \E c \in 1..Len(item.content.headers) : Contains(item.content.headers[c], text)
         \/ \E r \in 1..Len(item.content.rows) :
                \E c \in 1..Len(item.content.rows[r]) :
                    Contains(item.content.rows[r][c], text)
    ELSE Contains(item.content, text)

\* the text nodes of the main area that are in no script, style, nav, header
\* or footer element and whose sanitized text has more than 2 characters
TextsToKeep(doc) ==
    LET main_area == MainArea(doc)
    IN  IF main_area = 0 THEN {}
        ELSE {t \in main_area..SubEnd(doc, main_area) :
                 /\ IsText(doc, t)
                 /\ Len(clean_text(doc[t].text)) > 2
                 /\ \A a \in Ancestors(doc, t) : doc[a].tag \notin ExcludedTags}

\* C24: no text is left out: the sanitized text of every text node of the
\* main area that is in no script, style, nav, header or footer element and
\* has more than 2 characters is contained in the content of some item.
C24_NoTextOmitted ==
    Converted =>
        \A t \in TextsToKeep(Page) :
            \E k \in 1..Len(content_items) :
                HoldsText(content_items[k], clean_text(Page[t].text))

====
